---- MODULE Spec2Model ----
(***************************************************************************)
(* gst-wayland-display: the command channel between the host (producer)    *)
(* and the compositor thread, the compositor's event loop, the frame       *)
(* pacing timer and the capture (create_frame) result path.                *)
(*                                                                         *)
(* Time is counted in ticks of half a second (Instant / Duration).         *)
(* An Option<T> is a sequence of length <= 1: <<>> is None, <<v>> Some(v). *)
(***************************************************************************)
EXTENDS Integers, Sequences, FiniteSets, TLC

\* ---------------------------------------------------------------- bounds
\* API calls (set_video_info, add_input_device, frame) the host makes in one run.
MaxCmds == 3
\* The monotonic clock stops advancing here.
MaxTime == 4
\* With no output to clamp to, the pointer stays within this many half pixels
\* of the origin.
MaxCoord == 4
\* EGL displays created in a run.
MaxDisplays == 3

\* ---------------------------------------------------------------- values
None == <<>>
Some(v) == <<v>>
IsSome(o) == o # <<>>
Unwrap(o) == o[1]

\* Host threads holding the *mut WaylandDisplay of the C API. "t1" is the
\* producer (streaming) thread; "t2" is a control thread of the host, which
\* takes steps under SpecHost only.
Threads == {"t1", "t2"}

\* gst_video::VideoInfo values the host negotiates: pixel layout, size and
\* frame rate (fps_n / fps_d frames per second; 0/1 is GStreamer's variable
\* frame rate).
Formats ==
    { [format |-> "RGBx", width |-> 4, height |-> 2, fps_n |-> 1, fps_d |-> 1],
      [format |-> "RGBx", width |-> 2, height |-> 2, fps_n |-> 2, fps_d |-> 1],
      [format |-> "RGBx", width |-> 2, height |-> 2, fps_n |-> 0, fps_d |-> 1] }

\* Pixel layouts (gst_video::VideoFormat) a host can ask for.
Layouts == {"RGBx", "RGB", "AYUV"}

\* The formats of the layout runs: every layout at two sizes, one frame rate.
LayoutFormats ==
    { [format |-> l, width |-> sz[1], height |-> sz[2], fps_n |-> 1, fps_d |-> 1] :
        l \in Layouts, sz \in {<<4, 2>>, <<2, 2>>} }

\* Bytes per pixel of a packed layout, and of a GPU buffer format (Fourcc).
BytesPerPixel(layout) == CASE layout = "RGB" -> 3 [] OTHER -> 4
FourccBytes(fourcc) == IF fourcc \in {"Abgr8888", "Ayuv"} THEN 4 ELSE 0

\* Fourcc::try_from(format.to_fourcc()): to_fourcc is 0 for the RGB layouts,
\* which is no DRM fourcc code; AYUV's code is DrmFourcc::Ayuv.
FourccTryFrom(layout) == IF layout = "AYUV" THEN Some("Ayuv") ELSE None

\* ... .unwrap_or(Fourcc::Abgr8888): the buffer format used for the render
\* buffer and for the framebuffer export.
FourccOrDefault(layout) ==
    IF IsSome(FourccTryFrom(layout)) THEN Unwrap(FourccTryFrom(layout)) ELSE "Abgr8888"

\* The bytes of the exported mapping (width x height in the export format).
MapLen(info) == info.width * info.height * FourccBytes(FourccOrDefault(info.format))

\* The bytes of plane 0 of a video frame of this format: stride x height,
\* the stride being the row's bytes rounded up to a multiple of 4.
PlaneLen(info) == ((info.width * BytesPerPixel(info.format) + 3) \div 4) * 4 * info.height

Paths == {"/dev/input/event0"}

\* SwapBuffersError variants a GlesError converts into (err.into()).
RenderErrors == {"ContextLost", "TemporaryFailure"}

\* The step of create_frame at which the backend fails, if any.
Faults == {"none", "cursor", "bind", "compose", "export", "map", "alloc", "unbind"}

\* Duration::from_secs_f64(num / den) in ticks; the caller guarantees den # 0.
DurationFromSecs(num, den) == (2 * num) \div den

\* Command::Buffer: frame duration = fps.denom / fps.numer seconds.
\* from_secs_f64 panics on a non-finite value (numer = 0).
FrameDurationPanics(info) == info.fps_n = 0
FrameDuration(info) == DurationFromSecs(info.fps_d, info.fps_n)

VARIABLES
    \* ---- host side (lib.rs, capi.rs)
    hpc,            \* per host thread: "idle", "recv" (in frame(), blocked on
                    \* buffer_rx.recv()), "join" (in drop, blocked on join()),
                    \* "done" (drop returned), "gone" (thread torn down)
    hret,           \* per host thread: what its last frame() returned
    handle,         \* "live" or "finished" (display_finish / drop was called)
    rch,            \* per host thread: the reply channel of its frame() call
    \* ---- the command channel (calloop::channel::channel())
    cmdq,           \* messages sent and not yet received
    \* ---- compositor thread (comp/mod.rs)
    cpc,            \* position of the compositor thread
    ready_chan,     \* the channel source is to be dispatched in this iteration
    ready_timers,   \* the timer sources to be dispatched in this iteration
    cur,            \* the reply send the thread is blocked in (Option)
    timers,         \* pending one-shot pacing timers
    should_quit,    \* State::should_quit
    output,         \* State::output and its current mode (Option)
    dtr,            \* State::dtr (Option)
    renderbuffer,   \* State::renderbuffer (Option)
    video_info,     \* State::video_info (Option)
    last_render,    \* State::last_render (Option)
    pointer_location, \* State::pointer_location, in half pixels
    renderer_bound, \* the renderer has a buffer bound
    input_devices,  \* paths handed to the libinput context
    clock,          \* Instant::now()
    \* ---- history
    nsent,          \* commands sent so far (the sequence number of the last)
    processed,      \* sequence number of the command handled last
    last_sent,      \* the format of the last set_video_info call (Option)
    last_via,       \* how the last render was started: "none", "immediate", "timer"
    frame_log,      \* what the last capture has done so far, in order
    \* ---- input pipeline (comp/input.rs)
    space,          \* State::space: the mapped windows, back to front
    keyboard_focus, \* the seat's keyboard focus (Option of a focus target)
    surpressed_keys, \* State::surpressed_keys
    constraints,    \* the pointer constraint of each surface: "none",
                    \* "inactive" or (active) "locked"
    pointer_focus,  \* the window with the pointer focus, or "none"
    pointer_grab,   \* a click grab holds the pointer focus
    keys_down,      \* the keys physically held down
    client_keys,    \* the keys whose press was forwarded, and no release since
    last_input,     \* the input event processed last and what became of it
    \* ---- lazily resolved lists (lib.rs)
    devices,        \* WaylandDisplay::devices and its one-shot channel
    envs,           \* WaylandDisplay::envs and its one-shot channel
    \* ---- the process-wide registry of EGL displays (comp/mod.rs)
    egl_lock,       \* the mutex of EGL_DISPLAYS: "free", its holder, "poisoned"
    egl_displays,   \* EGL_DISPLAYS: per render node, the display its Weak
                    \* points to (0: no entry)
    egl_arcs,       \* the EGLDisplays created so far: node and strong count
    servers         \* the compositor threads of the process: position,
                    \* render node and the display held (0: none)

hostVars == <<hpc, hret, handle, rch>>
stateVars == <<should_quit, output, dtr, renderbuffer, video_info, last_render,
               pointer_location, renderer_bound, input_devices>>
loopVars == <<cpc, ready_chan, ready_timers, cur, timers>>
histVars == <<nsent, processed, last_sent, last_via, frame_log>>
inputVars == <<space, keyboard_focus, surpressed_keys, constraints, pointer_focus,
               pointer_grab, keys_down, client_keys, last_input>>
lazyVars == <<devices, envs>>
eglVars == <<egl_lock, egl_displays, egl_arcs, servers>>
vars == <<hostVars, cmdq, loopVars, stateVars, clock, histVars, inputVars, lazyVars,
          eglVars>>

\* The compositor instances of one process and the render nodes they are
\* started on (None, the software renderer, is a key of the registry too).
Servers == {"s1", "s2"}
DrmNodes == {"renderD128", "software"}
NoServer == [pc |-> "none", node |-> "software", display |-> 0]

\* Toplevel windows clients have mapped.
Windows == {"w1", "w2", "w3"}

\* A one-shot channel with its MaybeRecv: the channel is "open", "sent" (val
\* is queued), "taken" or "closed" (the sender was dropped with nothing sent);
\* cell is the MaybeRecv (None for Rx, Some(v) for Value(v)); recvs counts the
\* recv() calls made on the channel.
NoValue == [st |-> "open", val |-> None, cell |-> None, recvs |-> 0]

\* render_target.as_devices() and the WAYLAND_DISPLAY variable of the socket.
DeviceList == "/dev/dri/renderD128"
EnvList == "WAYLAND_DISPLAY=wayland-1"

NoReply == [st |-> "none"]
NoRet == [kind |-> "none"]
NoInput == [kind |-> "none"]

\* The registry before any compositor was started.
InitEgl ==
    /\ egl_lock = "free"
    /\ egl_displays = [n \in DrmNodes |-> 0]
    /\ egl_arcs = <<>>
    /\ servers = [s \in Servers |-> NoServer]

\* The state after construction, but for the thread's position and the windows.
InitState ==
    /\ hpc = [t \in Threads |-> "idle"]
    /\ hret = [t \in Threads |-> NoRet]
    /\ handle = "live"
    /\ rch = [t \in Threads |-> NoReply]
    /\ cmdq = <<>>
    /\ ready_chan = FALSE
    /\ ready_timers = {}
    /\ cur = None
    /\ timers = {}
    /\ should_quit = FALSE
    /\ output = None
    /\ dtr = None
    /\ renderbuffer = None
    /\ video_info = None
    /\ last_render = None
    /\ pointer_location = <<0, 0>>
    /\ renderer_bound = FALSE
    /\ input_devices = {}
    /\ clock = 0
    /\ nsent = 0
    /\ processed = 0
    /\ last_sent = None
    /\ last_via = "none"
    /\ frame_log = <<>>
    /\ surpressed_keys = {}
    /\ constraints = [w \in Windows |-> "none"]
    /\ pointer_focus = "none"
    /\ pointer_grab = FALSE
    /\ keys_down = {}
    /\ client_keys = {}
    /\ last_input = NoInput
    /\ devices = NoValue
    /\ envs = NoValue
    /\ InitEgl

Init ==
    /\ InitState
    /\ cpc = "starting"
    /\ space = <<>>
    /\ keyboard_focus = None

\* ------------------------------------------------------------ host side
\* The receiving end of the command channel lives in the event loop, which the
\* compositor thread drops when init returns or unwinds.
RxAlive == cpc \notin {"exiting", "terminated"}

\* calloop Sender::send: never blocks; Err once the receiver is dropped.
SendCommand(cmd) ==
    /\ nsent' = nsent + 1
    /\ cmdq' = IF RxAlive THEN Append(cmdq, cmd @@ [seq |-> nsent + 1]) ELSE cmdq

CanCall(t) == hpc[t] = "idle" /\ handle = "live" /\ nsent < MaxCmds

\* WaylandDisplay::set_video_info: the send result is ignored.
SetVideoInfo(t, info) ==
    /\ CanCall(t)
    /\ SendCommand([type |-> "VideoInfo", info |-> info])
    /\ last_sent' = Some(info)
    /\ UNCHANGED <<hostVars, loopVars, stateVars, clock, processed, last_via, frame_log>>
    /\ UNCHANGED <<inputVars, lazyVars, eglVars>>

\* WaylandDisplay::add_input_device: the send result is ignored.
AddInputDevice(t, path) ==
    /\ CanCall(t)
    /\ SendCommand([type |-> "InputDevice", path |-> path])
    /\ UNCHANGED <<hostVars, loopVars, stateVars, clock, processed, last_sent, last_via, frame_log>>
    /\ UNCHANGED <<inputVars, lazyVars, eglVars>>

\* WaylandDisplay::frame, first half: create the reply channel and send
\* Command::Buffer; a failed send returns Eos at once.
FrameSend(t) ==
    /\ CanCall(t)
    /\ SendCommand([type |-> "Buffer", reply |-> t, latest |-> last_sent])
    /\ IF RxAlive
          THEN /\ hpc' = [hpc EXCEPT ![t] = "recv"]
               /\ rch' = [rch EXCEPT ![t] = [st |-> "open"]]
               /\ hret' = hret
          ELSE /\ hret' = [hret EXCEPT ![t] = [kind |-> "Eos", from |-> "send"]]
               /\ UNCHANGED <<hpc, rch>>
    /\ UNCHANGED <<handle, loopVars, stateVars, clock, processed, last_sent, last_via, frame_log>>
    /\ UNCHANGED <<inputVars, lazyVars, eglVars>>

\* frame(): the gst::FlowError a received SwapBuffersError maps to.
FlowErrorSwapped(err) == IF err = "ContextLost" THEN "Error" ELSE "Eos"
FlowErrorOf(err) == IF err = "ContextLost" THEN "Eos" ELSE "Error"

\* What frame() returns for the outcome of buffer_rx.recv().
FrameResult(reply) ==
    IF reply.st = "closed"
       THEN [kind |-> "Error", from |-> "closed"]
       ELSE IF reply.val.kind = "Ok"
               THEN [kind |-> "Buffer", info |-> reply.val.info,
                     latest |-> reply.val.latest, len |-> reply.val.len,
                     fourcc |-> reply.val.fourcc]
               ELSE [kind |-> FlowErrorOf(reply.val.err), from |-> "render"]

\* buffer_rx.recv() can return: a value is offered, or every sender is dropped.
RecvReadyNoWait(reply) == TRUE
RecvReady(reply) == reply.st \in {"offered", "closed"}

\* WaylandDisplay::frame, second half: buffer_rx.recv() returns. Taking an
\* offered value completes the rendezvous the compositor is blocked in.
FrameRecv(t) ==
    /\ hpc[t] = "recv"
    /\ RecvReady(rch[t])
    /\ hpc' = [hpc EXCEPT ![t] = "idle"]
    /\ hret' = [hret EXCEPT ![t] =
                  IF rch[t].st \in {"offered", "closed"}
                     THEN FrameResult(rch[t])
                     ELSE [kind |-> "Error", from |-> "nowait"]]
    /\ rch' = [rch EXCEPT ![t] = NoReply]
    /\ cur' = IF rch[t].st = "offered"
                 THEN Some([Unwrap(cur) EXCEPT !.sent = "ok"])
                 ELSE cur
    /\ frame_log' = IF rch[t].st = "offered" THEN Append(frame_log, "handed")
                                               ELSE frame_log
    /\ UNCHANGED <<handle, cmdq, cpc, ready_chan, ready_timers, timers, stateVars,
                   clock, nsent, processed, last_sent, last_via>>
    /\ UNCHANGED <<inputVars, lazyVars, eglVars>>

\* MaybeRecv::get: in Rx, recv() blocks until the value is sent or the sender
\* is gone, and unwrap() panics in the caller in the latter case; the value
\* received replaces the receiver. In Value, the cached value is returned.
MaybeRecvGet(ch) ==
    CASE IsSome(ch.cell) -> ch
      [] ch.st = "sent" -> [ch EXCEPT !.st = "taken", !.cell = ch.val, !.recvs = @ + 1]
      [] OTHER -> [ch EXCEPT !.recvs = @ + 1]

\* What the caller of get() sees: the value, or the panic of unwrap().
GetReturn(ch) ==
    IF IsSome(ch.cell) THEN [kind |-> "list", val |-> Unwrap(ch.cell)]
                       ELSE [kind |-> "panic"]

\* WaylandDisplay::devices (display_get_devices_len, display_get_devices).
GetDevices(t) ==
    /\ hpc[t] = "idle" /\ handle = "live"
    /\ IsSome(devices.cell) \/ devices.st \in {"sent", "closed"}
    /\ devices' = MaybeRecvGet(devices)
    /\ hret' = [hret EXCEPT ![t] = GetReturn(devices')]
    /\ hpc' = [hpc EXCEPT ![t] = IF IsSome(devices'.cell) THEN "idle" ELSE "panicked"]
    /\ UNCHANGED <<handle, rch, cmdq, loopVars, stateVars, clock, histVars, inputVars,
                   eglVars, envs>>

\* WaylandDisplay::env_vars (display_get_envvars_len, display_get_envvars).
GetEnvVars(t) ==
    /\ hpc[t] = "idle" /\ handle = "live"
    /\ IsSome(envs.cell) \/ envs.st \in {"sent", "closed"}
    /\ envs' = MaybeRecvGet(envs)
    /\ hret' = [hret EXCEPT ![t] = GetReturn(envs')]
    /\ hpc' = [hpc EXCEPT ![t] = IF IsSome(envs'.cell) THEN "idle" ELSE "panicked"]
    /\ UNCHANGED <<handle, rch, cmdq, loopVars, stateVars, clock, histVars, inputVars,
                   eglVars, devices>>

\* Drop for WaylandDisplay (display_finish): send Quit; if the send fails,
\* return without joining; otherwise block in join().
Drop(t) ==
    /\ hpc[t] = "idle" /\ handle = "live"
    /\ handle' = "finished"
    /\ SendCommand([type |-> "Quit"])
    /\ hpc' = [hpc EXCEPT ![t] = IF RxAlive THEN "join" ELSE "done"]
    /\ UNCHANGED <<hret, rch, loopVars, stateVars, clock, processed, last_sent, last_via, frame_log>>
    /\ UNCHANGED <<inputVars, lazyVars, eglVars>>

\* thread_handle.join() returns once the compositor thread has terminated.
Join(t) ==
    /\ hpc[t] = "join"
    /\ cpc = "terminated"
    /\ hpc' = [hpc EXCEPT ![t] = "done"]
    /\ UNCHANGED <<hret, handle, rch, cmdq, loopVars, stateVars, clock, histVars>>
    /\ UNCHANGED <<inputVars, lazyVars, eglVars>>

\* The host thread blocked in frame() is torn down by the host: buffer_rx is
\* dropped without a receive. A send the compositor is blocked in fails.
HostThreadGone(t) ==
    /\ hpc[t] = "recv"
    /\ hpc' = [hpc EXCEPT ![t] = "gone"]
    /\ rch' = [rch EXCEPT ![t] = [st |-> "rxgone"]]
    /\ cur' = IF rch[t].st = "offered"
                 THEN Some([Unwrap(cur) EXCEPT !.sent = "err"])
                 ELSE cur
    /\ UNCHANGED <<hret, handle, cmdq, cpc, ready_chan, ready_timers, timers,
                   stateVars, clock, histVars>>
    /\ UNCHANGED <<inputVars, lazyVars, eglVars>>

\* ------------------------------------------------------ compositor thread
InLoop == cpc \in {"poll", "dispatch", "drain", "sending"}

\* A panic on the compositor thread: the stack unwinds up to catch_unwind.
\* The reply senders the panicking callback owns (closed) are dropped.
PanicLeaksSender(closed) ==
    /\ cpc' = "unwinding"
    /\ cur' = None
    /\ ready_chan' = FALSE
    /\ ready_timers' = {}
    /\ rch' = rch
Panic(closed) ==
    /\ cpc' = "unwinding"
    /\ cur' = None
    /\ ready_chan' = FALSE
    /\ ready_timers' = {}
    /\ rch' = [t \in Threads |->
                 IF t \in closed /\ rch[t].st = "open" THEN [st |-> "closed"] ELSE rch[t]]

\* Sender::send on a one-shot channel, and the drop of its sender.
Published(ch, v) == [ch EXCEPT !.st = "sent", !.val = Some(v)]
SenderDropped(ch) == IF ch.st = "open" THEN [ch EXCEPT !.st = "closed"] ELSE ch

\* init up to event_loop.run: the EGL display, context and renderer are
\* created, the device list is sent, and after the sockets the environment.
InitDone ==
    /\ cpc = "starting"
    /\ cpc' = "poll"
    /\ devices' = Published(devices, DeviceList)
    /\ envs' = Published(envs, EnvList)
    /\ UNCHANGED <<hostVars, cmdq, ready_chan, ready_timers, cur, timers, stateVars,
                   clock, histVars>>
    /\ UNCHANGED <<inputVars, eglVars>>

\* One of init's expect()s or unwrap()s fails: before the device list is sent
\* (no EGL device, display, context, renderer) or after it (formats, sockets).
\* The unwinding drops both senders.
InitPanic(devices_sent) ==
    /\ cpc = "starting"
    /\ Panic({})
    /\ devices' = IF devices_sent THEN Published(devices, DeviceList)
                                  ELSE SenderDropped(devices)
    /\ envs' = SenderDropped(envs)
    /\ UNCHANGED <<hpc, hret, handle, cmdq, timers, stateVars, clock, histVars>>
    /\ UNCHANGED <<inputVars, eglVars>>

\* The poll returns: the channel source is ready when a message is queued, a
\* timer source when its deadline has passed.
PollReturn ==
    /\ cpc = "poll"
    /\ LET due == {tm \in timers : tm.deadline <= clock}
       IN /\ cmdq # <<>> \/ due # {}
          /\ ready_chan' = (cmdq # <<>>)
          /\ ready_timers' = due
    /\ cpc' = "dispatch"
    /\ UNCHANGED <<hostVars, cmdq, cur, timers, stateVars, clock, histVars>>
    /\ UNCHANGED <<inputVars, lazyVars, eglVars>>

\* The channel source's process_events starts receiving queued messages.
DispatchChannel ==
    /\ cpc = "dispatch"
    /\ ready_chan
    /\ ready_chan' = FALSE
    /\ cpc' = "drain"
    /\ UNCHANGED <<hostVars, cmdq, ready_timers, cur, timers, stateVars, clock, histVars>>
    /\ UNCHANGED <<inputVars, lazyVars, eglVars>>

\* try_recv finds the channel empty: the source's dispatch ends.
DrainEnd ==
    /\ cpc = "drain"
    /\ cmdq = <<>>
    /\ cpc' = "dispatch"
    /\ UNCHANGED <<hostVars, cmdq, ready_chan, ready_timers, cur, timers, stateVars,
                   clock, histVars>>
    /\ UNCHANGED <<inputVars, lazyVars, eglVars>>

\* The message try_recv returns, and what stays queued.
NextCommandLifo == cmdq[Len(cmdq)]
NextCommand == Head(cmdq)
RestCommands == Tail(cmdq)

Receive(type) ==
    /\ cpc = "drain"
    /\ cmdq # <<>>
    /\ NextCommand.type = type
    /\ cmdq' = RestCommands
    /\ processed' = NextCommand.seq

\* mode.refresh: the duration computed from fps.numer / fps.denom, in ms, rounded.
RefreshOf(info) == (2 * 1000 * info.fps_n + info.fps_d) \div (2 * info.fps_d)

\* Command::VideoInfo. create_buffer's expect() panics, after the output, the
\* damage tracker and the pointer location were already replaced.
HandleVideoInfo(alloc_ok) ==
    /\ Receive("VideoInfo")
    /\ LET info == NextCommand.info
           size == <<info.width, info.height>>
       IN /\ output' = Some([size |-> size, refresh |-> RefreshOf(info)])
          /\ dtr' = Some(size)
          /\ pointer_location' = size
          /\ IF alloc_ok
                THEN /\ renderbuffer' = Some([size |-> size,
                                            fourcc |-> FourccOrDefault(info.format)])
                     /\ video_info' = Some(info)
                     /\ UNCHANGED <<cpc, cur, ready_chan, ready_timers, rch>>
                ELSE /\ Panic({})
                     /\ UNCHANGED <<renderbuffer, video_info>>
    /\ UNCHANGED <<hpc, hret, handle, timers, should_quit, last_render, renderer_bound,
                   input_devices, clock, nsent, last_sent, last_via, frame_log>>
    /\ UNCHANGED <<inputVars, lazyVars, eglVars>>

\* Command::InputDevice: path_add_device, its result unused.
HandleInputDevice ==
    /\ Receive("InputDevice")
    /\ input_devices' = input_devices \cup {NextCommand.path}
    /\ UNCHANGED <<hostVars, loopVars, should_quit, output, dtr, renderbuffer, video_info,
                   last_render, pointer_location, renderer_bound, clock, nsent,
                   last_sent, last_via, frame_log>>
    /\ UNCHANGED <<inputVars, lazyVars, eglVars>>

\* Command::Quit (the arm shared with Event::Closed).
HandleQuitStopsNow ==
    /\ Receive("Quit")
    /\ should_quit' = TRUE
    /\ cpc' = "returning"
    /\ UNCHANGED <<hostVars, ready_chan, ready_timers, cur, timers, output, dtr,
                   renderbuffer, video_info, last_render, pointer_location,
                   renderer_bound, input_devices, clock, nsent, last_sent, last_via, frame_log>>
    /\ UNCHANGED <<inputVars, lazyVars, eglVars>>
HandleQuit ==
    /\ Receive("Quit")
    /\ should_quit' = TRUE
    /\ UNCHANGED <<hostVars, loopVars, output, dtr, renderbuffer, video_info,
                   last_render, pointer_location, renderer_bound, input_devices,
                   clock, nsent, last_sent, last_via, frame_log>>
    /\ UNCHANGED <<inputVars, lazyVars, eglVars>>

\* The four assertions at the start of create_frame.
AssertsHold ==
    IsSome(output) /\ IsSome(dtr) /\ IsSome(video_info) /\ IsSome(renderbuffer)

\* State::create_frame with the backend failing at step `fault` with error
\* `err`: the outcome and whether the render buffer is left bound.
\* cursor, bind, compose and unbind failures return Err(DTRError::Rendering);
\* export, map and alloc failures hit an expect(); the asserts panic. The
\* output buffer has the mapping's length; clone_from_slice panics unless the
\* frame's plane has that length too.
CreateFrameSteps(fault, err) ==
    CASE fault = "cursor" -> [kind |-> "err", err |-> err, bound |-> renderer_bound]
      [] fault = "bind" -> [kind |-> "err", err |-> err, bound |-> renderer_bound]
      [] fault = "compose" -> [kind |-> "err", err |-> err, bound |-> TRUE]
      [] fault \in {"export", "map", "alloc"} -> [kind |-> "panic", bound |-> TRUE]
      [] fault = "unbind" -> [kind |-> "err", err |-> err, bound |-> TRUE]
      [] OTHER ->
           IF MapLen(Unwrap(video_info)) = PlaneLen(Unwrap(video_info))
              THEN [kind |-> "ok", info |-> video_info, bound |-> FALSE,
                    len |-> MapLen(Unwrap(video_info)),
                    fourcc |-> FourccOrDefault(Unwrap(video_info).format)]
              ELSE [kind |-> "panic", bound |-> TRUE]
CreateFrameNoAsserts(fault, err) ==
    IF AssertsHold
       THEN CreateFrameSteps(fault, err)
       ELSE [kind |-> "ok", info |-> video_info, bound |-> FALSE, len |-> 0,
             fourcc |-> "Abgr8888"]
CreateFrame(fault, err) ==
    IF AssertsHold
       THEN CreateFrameSteps(fault, err)
       ELSE [kind |-> "panic", bound |-> renderer_bound]

\* buffer_sender.send(val) on the rendezvous reply channel of thread t starts:
\* the value is offered to the receiver, or the receiver is already gone.
OfferBuffered(t, val, ok, ret_to) ==
    /\ cpc' = "sending"
    /\ IF rch[t].st = "open"
          THEN /\ rch' = [rch EXCEPT ![t] = [st |-> "offered", val |-> val]]
               /\ cur' = Some([reply |-> t, ok |-> ok, ret_to |-> ret_to,
                               sent |-> "ok"])
          ELSE /\ rch' = rch
               /\ cur' = Some([reply |-> t, ok |-> ok, ret_to |-> ret_to,
                               sent |-> "err"])
Offer(t, val, ok, ret_to) ==
    /\ cpc' = "sending"
    /\ IF rch[t].st = "open"
          THEN /\ rch' = [rch EXCEPT ![t] = [st |-> "offered", val |-> val]]
               /\ cur' = Some([reply |-> t, ok |-> ok, ret_to |-> ret_to,
                               sent |-> "pending"])
          ELSE /\ rch' = rch
               /\ cur' = Some([reply |-> t, ok |-> ok, ret_to |-> ret_to,
                               sent |-> "err"])

\* The Ok arm of the render closure up to its send: last_render is set, the
\* fence of the composition is waited on, the buffer is sent.
OkArmSendFirst == <<"send", "timestamp", "fence_wait">>
OkArmUpToSend == <<"timestamp", "fence_wait", "send">>

\* The render closure, up to its send: create_frame, the render timestamp and
\* the fence wait on success, then the send of Ok(buf) or Err(err.into()).
\* keep: the timer sources still to be dispatched in this iteration.
Render(now, req, ret_to, via, keep, fault, err) ==
    LET r == CreateFrame(fault, err)
    IN /\ renderer_bound' = r.bound
       /\ CASE r.kind = "ok" ->
                 /\ last_render' = Some(now)
                 /\ last_via' = via
                 /\ frame_log' = OkArmUpToSend
                 /\ Offer(req.reply,
                          [kind |-> "Ok", info |-> r.info, latest |-> req.latest,
                           len |-> r.len, fourcc |-> r.fourcc],
                          TRUE, ret_to)
                 /\ ready_timers' = keep
                 /\ UNCHANGED ready_chan
            [] r.kind = "err" ->
                 /\ Offer(req.reply, [kind |-> "Err", err |-> r.err], FALSE, ret_to)
                 /\ ready_timers' = keep
                 /\ frame_log' = <<"send">>
                 /\ UNCHANGED <<last_render, last_via, ready_chan>>
            [] OTHER ->
                 /\ Panic({req.reply})
                 /\ UNCHANGED <<last_render, last_via, frame_log>>

\* Command::Buffer: the time still to wait before the next render (Option).
PacingWaitNever(now) == None
PacingWait(now) ==
    IF IsSome(last_render)
       THEN LET duration == FrameDuration(Unwrap(video_info))
                time_passed == now - Unwrap(last_render)
            IN IF time_passed < duration THEN Some(duration - time_passed) ELSE None
       ELSE None

\* Command::Buffer. insert_ok: whether insert_source accepts the timer.
HandleBuffer(insert_ok, fault, err) ==
    /\ Receive("Buffer")
    /\ LET req == NextCommand
       IN IF IsSome(last_render) /\ FrameDurationPanics(Unwrap(video_info))
             THEN /\ Panic({req.reply})
                  /\ UNCHANGED <<timers, should_quit, last_render, renderer_bound,
                                 last_via, frame_log>>
             ELSE LET wait == PacingWait(clock)
                  IN IF IsSome(wait)
                        THEN /\ IF insert_ok
                                   THEN /\ timers' = timers \cup
                                              {[deadline |-> clock + Unwrap(wait),
                                                reply |-> req.reply,
                                                latest |-> req.latest]}
                                        /\ UNCHANGED <<should_quit, rch>>
                                   ELSE /\ should_quit' = TRUE
                                        /\ rch' = [rch EXCEPT ![req.reply] =
                                                     IF @.st = "open"
                                                        THEN [st |-> "closed"] ELSE @]
                                        /\ timers' = timers
                             /\ UNCHANGED <<cpc, ready_chan, ready_timers, cur,
                                            last_render, renderer_bound, last_via, frame_log>>
                        ELSE /\ Render(clock, req, "drain", "immediate", ready_timers, fault, err)
                             /\ UNCHANGED <<timers, should_quit>>
    /\ UNCHANGED <<hpc, hret, handle, output, dtr, renderbuffer, video_info,
                   pointer_location, input_devices, clock, nsent, last_sent>>
    /\ UNCHANGED <<inputVars, lazyVars, eglVars>>

\* The pacing timer's callback: render(data, now) with the timer's deadline
\* as now, then TimeoutAction::Drop.
DispatchTimer(tm, fault, err) ==
    /\ cpc = "dispatch"
    /\ tm \in ready_timers
    /\ timers' = timers \ {tm}
    /\ Render(tm.deadline, tm, "dispatch", "timer", ready_timers \ {tm}, fault, err)
    /\ UNCHANGED <<hpc, hret, handle, cmdq, should_quit, output, dtr, renderbuffer,
                   video_info, pointer_location, input_devices, clock, nsent,
                   processed, last_sent>>
    /\ UNCHANGED <<inputVars, lazyVars, eglVars>>

\* The Ok arm of the render closure after its send: with the output, every
\* window gets its scanout update, frame callback and presentation feedback.
FeedbackSent(log, ok) == IF ok THEN Append(log, "feedback") ELSE log

\* buffer_sender.send returns: Ok once the receiver has taken the value, Err
\* when the receiver is gone. On Ok(buf) the windows then get their frame
\* callbacks and presentation feedback. A failed send sets should_quit.
SendReturnBuffered ==
    /\ cpc = "sending"
    /\ should_quit' = (should_quit \/ Unwrap(cur).sent = "err")
    /\ cpc' = Unwrap(cur).ret_to
    /\ cur' = None
    /\ frame_log' = FeedbackSent(frame_log, Unwrap(cur).ok)
    /\ UNCHANGED <<hostVars, cmdq, ready_chan, ready_timers, timers, output, dtr,
                   renderbuffer, video_info, last_render, pointer_location,
                   renderer_bound, input_devices, clock, nsent, processed, last_sent,
                   last_via>>
    /\ UNCHANGED <<inputVars, lazyVars, eglVars>>
SendReturnIgnoresErr ==
    /\ cpc = "sending"
    /\ Unwrap(cur).sent # "pending"
    /\ should_quit' = should_quit
    /\ cpc' = Unwrap(cur).ret_to
    /\ cur' = None
    /\ frame_log' = FeedbackSent(frame_log, Unwrap(cur).ok)
    /\ UNCHANGED <<hostVars, cmdq, ready_chan, ready_timers, timers, output, dtr,
                   renderbuffer, video_info, last_render, pointer_location,
                   renderer_bound, input_devices, clock, nsent, processed, last_sent,
                   last_via>>
    /\ UNCHANGED <<inputVars, lazyVars, eglVars>>
SendReturn ==
    /\ cpc = "sending"
    /\ Unwrap(cur).sent # "pending"
    /\ should_quit' = (should_quit \/ Unwrap(cur).sent = "err")
    /\ cpc' = Unwrap(cur).ret_to
    /\ cur' = None
    /\ frame_log' = FeedbackSent(frame_log, Unwrap(cur).ok)
    /\ UNCHANGED <<hostVars, cmdq, ready_chan, ready_timers, timers, output, dtr,
                   renderbuffer, video_info, last_render, pointer_location,
                   renderer_bound, input_devices, clock, nsent, processed, last_sent,
                   last_via>>
    /\ UNCHANGED <<inputVars, lazyVars, eglVars>>

\* The closure event_loop.run calls after every iteration's dispatches:
\* flush, refresh, cleanup, and signal.stop() when should_quit is set.
EndIteration ==
    /\ cpc = "dispatch"
    /\ ~ready_chan /\ ready_timers = {}
    /\ cpc' = IF should_quit THEN "returning" ELSE "poll"
    /\ UNCHANGED <<hostVars, cmdq, ready_chan, ready_timers, cur, timers, stateVars,
                   clock, histVars>>
    /\ UNCHANGED <<inputVars, lazyVars, eglVars>>

\* The reply senders held by queued Command::Buffer messages and by timers.
HeldSendersQueuedOnly ==
    {cmdq[i].reply : i \in {j \in 1..Len(cmdq) : cmdq[j].type = "Buffer"}}
HeldSenders ==
    {cmdq[i].reply : i \in {j \in 1..Len(cmdq) : cmdq[j].type = "Buffer"}}
        \cup {tm.reply : tm \in timers}

\* init returns or unwinds: state and the event loop are dropped, and with
\* them the channel's receiver, the queued messages and the pending timers.
DropLocals ==
    /\ cpc \in {"returning", "unwinding"}
    /\ cpc' = "exiting"
    /\ cmdq' = <<>>
    /\ timers' = {}
    /\ rch' = [t \in Threads |->
                 IF t \in HeldSenders /\ rch[t].st = "open"
                    THEN [st |-> "closed"] ELSE rch[t]]
    /\ UNCHANGED <<hpc, hret, handle, ready_chan, ready_timers, cur, stateVars, clock,
                   histVars>>
    /\ UNCHANGED <<inputVars, lazyVars, eglVars>>

\* The thread's closure returns (after catch_unwind logged a panic).
ThreadExit ==
    /\ cpc = "exiting"
    /\ cpc' = "terminated"
    /\ UNCHANGED <<hostVars, cmdq, ready_chan, ready_timers, cur, timers, stateVars,
                   clock, histVars>>
    /\ UNCHANGED <<inputVars, lazyVars, eglVars>>

\* Time passes.
Tick ==
    /\ clock < MaxTime
    /\ clock' = clock + 1
    /\ UNCHANGED <<hostVars, cmdq, loopVars, stateVars, histVars>>
    /\ UNCHANGED <<inputVars, lazyVars, eglVars>>

\* --------------------------------------------------------- input pipeline
\* The keys of the keyboard.
Keys == {"Ctrl", "Shift", "Alt", "Logo", "Tab", "Q"}

\* The stacking orders of Space::elements(), back to front (the last element
\* is the topmost window).
Stackings ==
    {sp \in UNION {[1..n -> Windows] : n \in 0..Cardinality(Windows)} :
        \A i, j \in DOMAIN sp : sp[i] = sp[j] => i = j}

WindowTarget(w) == [kind |-> "window", id |-> w]
PopupTarget(w) == [kind |-> "popup", id |-> w]

\* ModifiersState after the key event was fed to the keymap state.
ModifiersOf(down) ==
    [ctrl |-> "Ctrl" \in down, shift |-> "Shift" \in down, alt |-> "Alt" \in down,
     logo |-> "Logo" \in down]

\* handle.modified_sym(): the key's symbol under the current modifiers, in a
\* keymap that has Tab on both shift levels of the Tab key.
ModifiedSym(key, mods) ==
    CASE key = "Q" -> IF mods.shift THEN "Q" ELSE "q"
      [] key = "Tab" -> "Tab"
      [] key = "Ctrl" -> "Control_L"
      [] key = "Shift" -> "Shift_L"
      [] key = "Logo" -> "Super_L"
      [] OTHER -> "Alt_L"

\* The symbol a shortcut records as suppressed (keysyms::KEY_Tab, KEY_Q).
ShortcutKeysymLower(sym) == IF sym = "Q" THEN "q" ELSE sym
ShortcutKeysym(sym) == sym

\* Space::map_element(element, location, true) of a mapped element, and
\* Space::raise_element: the element moves to the top of the stack.
RaiseElementInPlace(sp, w) == sp
RaiseElement(sp, w) == SelectSeq(sp, LAMBDA x : x # w) \o <<w>>

\* The modifiers of the global shortcuts: ctrl and shift, neither alt nor logo.
ShortcutModifiersAnyLogo(mods) == mods.ctrl /\ mods.shift /\ ~mods.alt
ShortcutModifiers(mods) == mods.ctrl /\ mods.shift /\ ~mods.alt /\ ~mods.logo

\* The filter closure of keyboard.input: whether the event is intercepted or
\* forwarded, the stack, focus and suppressed set it leaves, and the window
\* it asks to close (Option).
KeyboardFilter(state, mods, sym) ==
    LET forward == [result |-> "Forward", space |-> space, focus |-> keyboard_focus,
                    surpressed |-> surpressed_keys, close |-> None]
    IN IF state = "Pressed"
          THEN IF ShortcutModifiers(mods)
                  THEN CASE sym = "Tab" /\ space # <<>> ->
                              [result |-> "Intercept",
                               space |-> RaiseElement(space, space[Len(space)]),
                               focus |-> Some(WindowTarget(space[Len(space)])),
                               surpressed |-> surpressed_keys \cup {ShortcutKeysym("Tab")},
                               close |-> None]
                         [] sym = "Q" /\ IsSome(keyboard_focus)
                                /\ Unwrap(keyboard_focus).kind = "window" ->
                              [result |-> "Intercept", space |-> space,
                               focus |-> keyboard_focus,
                               surpressed |-> surpressed_keys \cup {ShortcutKeysym("Q")},
                               close |-> Some(Unwrap(keyboard_focus).id)]
                         [] OTHER -> forward
                  ELSE forward
          ELSE IF sym \in surpressed_keys
                  THEN [result |-> "Intercept", space |-> space, focus |-> keyboard_focus,
                        surpressed |-> surpressed_keys \ {sym}, close |-> None]
                  ELSE forward

\* InputEvent::Keyboard: the key event goes through keyboard.input, which
\* updates the keymap state, runs the filter and forwards unless intercepted.
InputKeyboard(key, state) ==
    /\ cpc = "poll"
    /\ (state = "Pressed") = (key \notin keys_down)
    /\ LET down == IF state = "Pressed" THEN keys_down \cup {key} ELSE keys_down \ {key}
           mods == ModifiersOf(down)
           sym == ModifiedSym(key, mods)
           f == KeyboardFilter(state, mods, sym)
       IN /\ keys_down' = down
          /\ space' = f.space
          /\ keyboard_focus' = f.focus
          /\ surpressed_keys' = f.surpressed
          /\ client_keys' = IF f.result = "Forward"
                               THEN IF state = "Pressed" THEN client_keys \cup {key}
                                                         ELSE client_keys \ {key}
                               ELSE client_keys
          /\ last_input' = [kind |-> "key", key |-> key, state |-> state, sym |-> sym,
                            result |-> f.result, close |-> f.close]
    /\ UNCHANGED <<lazyVars, eglVars, hostVars, cmdq, loopVars, stateVars, clock, histVars, constraints,
                   pointer_focus, pointer_grab>>

\* The formats of the pointer runs, the relative deltas and the normalised
\* absolute positions (in quarters of the output's extent) a device reports.
\* Pointer coordinates are counted in half pixels.
PointerFormats ==
    { [format |-> "RGBx", width |-> 4, height |-> 4, fps_n |-> 1, fps_d |-> 1],
      [format |-> "RGBx", width |-> 6, height |-> 4, fps_n |-> 1, fps_d |-> 1] }
Deltas == {-40, 2}
AbsQuarters == 0..3

\* f64::max and f64::min.
MaxOf(a, b) == IF a >= b THEN a ELSE b
MinOf(a, b) == IF a <= b THEN a ELSE b

\* State::clamp_coords: pos.max(0).min(size - 2) per axis when an output mode
\* is set, pos itself otherwise.
ClampCoords(pos) ==
    IF IsSome(output)
       THEN <<MinOf(MaxOf(pos[1], 0), 2 * (Unwrap(output).size[1] - 2)),
              MinOf(MaxOf(pos[2], 0), 2 * (Unwrap(output).size[2] - 2))>>
       ELSE pos

\* event.absolute_x_transformed(w): the normalised position scaled to w.
AbsoluteTransformed(q, extent) == (q * 2 * extent) \div 4

\* The mapped windows, and no window ("none").
Mapped == {space[i] : i \in DOMAIN space}
NoWindow == "none"

\* PointerHandle::motion(focus): the pointer focus follows the target unless
\* a grab holds it (the click grab keeps the focus of the press).
FocusAfterMotion(target) == IF pointer_grab THEN pointer_focus ELSE target

\* PointerTarget::leave of the surface that loses the pointer focus: its
\* constraint, if active, is deactivated.
ConstraintsAfterFocus(focus) ==
    IF pointer_focus # NoWindow /\ pointer_focus # focus
       THEN [constraints EXCEPT ![pointer_focus] = IF @ = "locked" THEN "inactive" ELSE @]
       ELSE constraints

\* PointerConstraintsHandler::new_constraint: a client locks the pointer on
\* its surface w; the lock is activated at once when w has the pointer focus,
\* and by a later motion onto w otherwise. (A confine constraint never changes
\* what a motion does to the location.)
NewConstraint(w, kind) ==
    /\ cpc = "poll"
    /\ w \in Mapped
    /\ constraints[w] = "none"
    /\ constraints' = [constraints EXCEPT ![w] = IF pointer_focus = w THEN kind ELSE "inactive"]
    /\ UNCHANGED <<lazyVars, eglVars, hostVars, cmdq, loopVars, stateVars, clock, histVars, space,
                   keyboard_focus, surpressed_keys, keys_down, client_keys, last_input,
                   pointer_focus, pointer_grab>>

\* The client destroys the constraint of its surface w.
RemoveConstraint(w) ==
    /\ cpc = "poll"
    /\ constraints[w] # "none"
    /\ constraints' = [constraints EXCEPT ![w] = "none"]
    /\ UNCHANGED <<lazyVars, eglVars, hostVars, cmdq, loopVars, stateVars, clock, histVars, space,
                   keyboard_focus, surpressed_keys, keys_down, client_keys, last_input,
                   pointer_focus, pointer_grab>>

\* The check at the old location: the surface under it has an active lock
\* whose region, if any, contains the pointer.
PointerLockedAnyRegion(under, in_region) ==
    under # NoWindow /\ constraints[under] = "locked"
PointerLocked(under, in_region) ==
    under # NoWindow /\ constraints[under] = "locked" /\ in_region

\* InputEvent::PointerMotion. under, new_under: the window under the old and
\* under the new pointer location; in_region, new_in_region: whether the
\* region of that window's constraint contains the pointer. The relative
\* motion is always emitted; a locked pointer gets nothing else and the
\* location stays.
InputPointerMotion(dx, dy, under, new_under, in_region, new_in_region) ==
    /\ cpc = "poll"
    /\ {under, new_under} \subseteq Mapped \cup {NoWindow}
    /\ IsSome(output) \/ (/\ pointer_location[1] + dx \in -MaxCoord..MaxCoord
                         /\ pointer_location[2] + dy \in -MaxCoord..MaxCoord)
    /\ IF PointerLocked(under, in_region)
          THEN /\ last_input' = [kind |-> "motion", locked |-> TRUE,
                                 calls |-> <<"relative_motion", "frame">>]
               /\ UNCHANGED <<pointer_location, pointer_focus, constraints>>
          ELSE /\ pointer_location' =
                     ClampCoords(<<pointer_location[1] + dx, pointer_location[2] + dy>>)
               /\ pointer_focus' = FocusAfterMotion(new_under)
               /\ LET left == ConstraintsAfterFocus(FocusAfterMotion(new_under))
                  IN constraints' =
                        IF new_under # NoWindow /\ left[new_under] = "inactive"
                              /\ new_in_region
                           THEN [left EXCEPT ![new_under] = "locked"]
                           ELSE left
               /\ last_input' = [kind |-> "motion", locked |-> FALSE,
                                 calls |-> <<"relative_motion", "motion", "frame">>]
    /\ UNCHANGED <<lazyVars, eglVars, hostVars, cmdq, loopVars, should_quit, output, dtr, renderbuffer,
                   video_info, last_render, renderer_bound, input_devices, clock,
                   histVars, space, keyboard_focus, surpressed_keys, keys_down,
                   client_keys, pointer_grab>>

\* What an absolute motion sends to the seat's pointer.
AbsoluteMotionCallsRelative == <<"relative_motion", "motion", "frame">>
AbsoluteMotionCalls == <<"motion", "frame">>

\* InputEvent::PointerMotionAbsolute: with an output, the location becomes the
\* transformed absolute position and the motion goes to the window under it;
\* without one the event is dropped.
InputPointerMotionAbsolute(qx, qy, under) ==
    /\ cpc = "poll"
    /\ under \in Mapped \cup {NoWindow}
    /\ IF IsSome(output)
          THEN /\ pointer_location' =
                     <<AbsoluteTransformed(qx, Unwrap(output).size[1]),
                       AbsoluteTransformed(qy, Unwrap(output).size[2])>>
               /\ pointer_focus' = FocusAfterMotion(under)
               /\ constraints' = ConstraintsAfterFocus(FocusAfterMotion(under))
               /\ last_input' = [kind |-> "absolute", configured |-> TRUE,
                                 calls |-> AbsoluteMotionCalls]
          ELSE /\ last_input' = [kind |-> "absolute", configured |-> FALSE,
                                 calls |-> <<>>]
               /\ UNCHANGED <<pointer_location, pointer_focus, constraints>>
    /\ UNCHANGED <<lazyVars, eglVars, hostVars, cmdq, loopVars, should_quit, output, dtr,
                   renderbuffer, video_info, last_render, renderer_bound, input_devices,
                   clock, histVars, space, keyboard_focus, surpressed_keys,
                   keys_down, client_keys, pointer_grab>>

\* pointer.is_grabbed() || keyboard.is_grabbed(), given whether a client
\* holds a grab of the pointer or the keyboard.
IsGrabbedNever(grabbed) == FALSE
IsGrabbed(grabbed) == grabbed \/ pointer_grab

\* InputEvent::PointerButton of the device's button. A press first runs
\* update_keyboard_focus, which, unless the pointer or the keyboard is
\* grabbed, raises the window under the pointer (if any) and gives it the
\* keyboard focus; then the button goes to the pointer, and that is all. The
\* pointer's default grab turns a press into a click grab, which the release
\* ends, handing the pointer focus to the window now under the pointer.
\* grabbed: a client holds a grab of the pointer or the keyboard.
InputPointerButton(pressed, grabbed, under) ==
    /\ cpc = "poll"
    /\ under \in Mapped \cup {NoWindow}
    /\ pressed => ~pointer_grab
    /\ IF pressed /\ ~IsGrabbed(grabbed) /\ under # NoWindow
          THEN /\ space' = RaiseElement(space, under)
               /\ keyboard_focus' = Some(WindowTarget(under))
               /\ last_input' = [kind |-> "button", pressed |-> pressed,
                                 grabbed |-> grabbed, under |-> under,
                                 calls |-> <<"set_focus", "button">>]
          ELSE /\ last_input' = [kind |-> "button", pressed |-> pressed,
                                 grabbed |-> grabbed, under |-> under,
                                 calls |-> <<"button">>]
               /\ UNCHANGED <<space, keyboard_focus>>
    /\ IF pressed
          THEN /\ pointer_grab' = ~grabbed
               /\ UNCHANGED <<pointer_focus, constraints>>
          ELSE /\ pointer_grab' = FALSE
               /\ pointer_focus' = IF pointer_grab THEN under ELSE pointer_focus
               /\ constraints' = IF pointer_grab THEN ConstraintsAfterFocus(under)
                                                 ELSE constraints
    /\ UNCHANGED <<lazyVars, eglVars, hostVars, cmdq, loopVars, stateVars, clock, histVars,
                   surpressed_keys, keys_down, client_keys>>

\* InputEvent::PointerAxis: an axis frame is sent to the pointer's focus.
InputPointerAxis ==
    /\ cpc = "poll"
    /\ last_input' = [kind |-> "axis", calls |-> <<"axis", "frame">>]
    /\ UNCHANGED <<lazyVars, eglVars, hostVars, cmdq, loopVars, stateVars, clock, histVars, space,
                   keyboard_focus, surpressed_keys, constraints, keys_down, client_keys,
                   pointer_focus, pointer_grab>>

\* ------------------------------------------------ the EGL display registry
\* Weak::upgrade of the registry entry of a node: the display it points to
\* while some Arc of it is alive, 0 otherwise.
Upgrade(node) ==
    IF egl_displays[node] # 0 /\ egl_arcs[egl_displays[node]].strong > 0
       THEN egl_displays[node]
       ELSE 0

\* The drop of one Arc<EGLDisplay>; the display is freed with the last one.
ArcDropped(arcs, d) ==
    IF d = 0 THEN arcs ELSE [arcs EXCEPT ![d].strong = @ - 1]

\* Mutex::lock: the caller waits for the mutex.
MutexFreeAlways == TRUE
MutexFree == egl_lock = "free"

\* WaylandDisplay::new: a compositor thread is started on a render node.
ServerSpawn(s, node) ==
    /\ servers[s].pc \in {"none", "dead"}
    /\ servers' = [servers EXCEPT ![s] = [pc |-> "start", node |-> node, display |-> 0]]
    /\ UNCHANGED <<hostVars, cmdq, loopVars, stateVars, clock, histVars, inputVars,
                   lazyVars, egl_lock, egl_displays, egl_arcs>>

\* EGL_DISPLAYS.lock().unwrap(): the thread takes the mutex, or panics when a
\* thread that panicked while holding it has poisoned it.
EglLock(s) ==
    /\ servers[s].pc = "start"
    /\ IF egl_lock = "poisoned"
          THEN /\ servers' = [servers EXCEPT ![s].pc = "dead"]
               /\ UNCHANGED egl_lock
          ELSE /\ MutexFree
               /\ egl_lock' = s
               /\ servers' = [servers EXCEPT ![s].pc = "locked"]
    /\ UNCHANGED <<hostVars, cmdq, loopVars, stateVars, clock, histVars, inputVars,
                   lazyVars, egl_displays, egl_arcs>>

\* Under the mutex: the entry of the node is looked up and upgraded; a
\* display that is alive is reused.
EglLookup(s) ==
    /\ servers[s].pc = "locked"
    /\ LET found == Upgrade(servers[s].node)
       IN IF found # 0
             THEN /\ egl_arcs' = [egl_arcs EXCEPT ![found].strong = @ + 1]
                  /\ servers' = [servers EXCEPT ![s].pc = "found", ![s].display = found]
             ELSE /\ servers' = [servers EXCEPT ![s].pc = "creating"]
                  /\ UNCHANGED egl_arcs
    /\ UNCHANGED <<hostVars, cmdq, loopVars, stateVars, clock, histVars, inputVars,
                   lazyVars, egl_lock, egl_displays>>

\* Still under the mutex, with no display alive: one is created and its Weak
\* inserted for the node. A failing expect() (no device, EGLDisplay::new)
\* panics with the mutex held.
EglCreate(s, create_ok) ==
    /\ servers[s].pc = "creating"
    /\ LET node == servers[s].node
           new == Len(egl_arcs) + 1
       IN IF create_ok
             THEN /\ new <= MaxDisplays
                  /\ egl_arcs' = Append(egl_arcs, [node |-> node, strong |-> 1])
                  /\ egl_displays' = [egl_displays EXCEPT ![node] = new]
                  /\ servers' = [servers EXCEPT ![s].pc = "found", ![s].display = new]
                  /\ UNCHANGED egl_lock
             ELSE /\ egl_lock' = IF egl_lock = s THEN "poisoned" ELSE egl_lock
                  /\ servers' = [servers EXCEPT ![s].pc = "dead"]
                  /\ UNCHANGED <<egl_displays, egl_arcs>>
    /\ UNCHANGED <<hostVars, cmdq, loopVars, stateVars, clock, histVars, inputVars,
                   lazyVars>>

\* EGLContext::new, still under the mutex, which the end of the block
\* releases; its expect() panics with the mutex held and the Arc is dropped.
EglContext(s, context_ok) ==
    /\ servers[s].pc = "found"
    /\ IF context_ok
          THEN /\ egl_lock' = IF egl_lock = s THEN "free" ELSE egl_lock
               /\ servers' = [servers EXCEPT ![s].pc = "running"]
               /\ UNCHANGED egl_arcs
          ELSE /\ egl_lock' = IF egl_lock = s THEN "poisoned" ELSE egl_lock
               /\ egl_arcs' = ArcDropped(egl_arcs, servers[s].display)
               /\ servers' = [servers EXCEPT ![s].pc = "dead", ![s].display = 0]
    /\ UNCHANGED <<hostVars, cmdq, loopVars, stateVars, clock, histVars, inputVars,
                   lazyVars, egl_displays>>

\* The thread ends (init returns after Quit, or unwinds): State and with it
\* egl_display_ref are dropped.
ServerShutdown(s) ==
    /\ servers[s].pc = "running"
    /\ egl_arcs' = ArcDropped(egl_arcs, servers[s].display)
    /\ servers' = [servers EXCEPT ![s].pc = "dead", ![s].display = 0]
    /\ UNCHANGED <<hostVars, cmdq, loopVars, stateVars, clock, histVars, inputVars,
                   lazyVars, egl_lock, egl_displays>>

\* ------------------------------------------------------- specifications
HostCall(t) ==
    \/ \E info \in Formats : SetVideoInfo(t, info)
    \/ \E path \in Paths : AddInputDevice(t, path)
    \/ FrameSend(t)
    \/ FrameRecv(t)
    \/ Drop(t)
    \/ Join(t)

Compositor ==
    \/ InitDone
    \/ \E devices_sent \in BOOLEAN : InitPanic(devices_sent)
    \/ PollReturn
    \/ DispatchChannel
    \/ DrainEnd
    \/ \E alloc_ok \in BOOLEAN : HandleVideoInfo(alloc_ok)
    \/ HandleInputDevice
    \/ \E insert_ok \in BOOLEAN, fault \in Faults, err \in RenderErrors :
          HandleBuffer(insert_ok, fault, err)
    \/ HandleQuit
    \/ \E tm \in ready_timers, fault \in Faults, err \in RenderErrors :
          DispatchTimer(tm, fault, err)
    \/ SendReturn
    \/ EndIteration
    \/ DropLocals
    \/ ThreadExit

\* One producer thread using the handle as WaylandDisplay's API allows.
Next == HostCall("t1") \/ Compositor \/ Tick
Spec == Init /\ [][Next]_vars

\* The calls a control thread makes: everything but display_get_frame.
ControlCall(t) ==
    \/ \E info \in Formats : SetVideoInfo(t, info)
    \/ \E path \in Paths : AddInputDevice(t, path)
    \/ Drop(t)
    \/ Join(t)

\* A C host with two threads on the handle: the streaming thread, which the
\* host may tear down while it is blocked in display_get_frame, and a control
\* thread.
NextHost ==
    \/ HostCall("t1")
    \/ HostThreadGone("t1")
    \/ ControlCall("t2")
    \/ Compositor
    \/ Tick
SpecHost == Init /\ [][NextHost]_vars

\* The same host under a fair scheduler: the compositor thread takes its next
\* step whenever it has one, and a thread blocked in buffer_rx.recv() returns
\* once the channel has a value or is disconnected.
SpecHostFair ==
    /\ SpecHost
    /\ WF_vars(Compositor)
    /\ WF_vars(FrameRecv("t1"))

\* A producer that negotiates any of the pixel layouts.
FormatCall(t) ==
    \/ \E info \in LayoutFormats : SetVideoInfo(t, info)
    \/ \E path \in Paths : AddInputDevice(t, path)
    \/ FrameSend(t)
    \/ FrameRecv(t)
    \/ Drop(t)
    \/ Join(t)

NextFormat == FormatCall("t1") \/ Compositor \/ Tick
SpecFormat == Init /\ [][NextFormat]_vars

\* The keyboard of a running compositor with any windows mapped and the
\* keyboard focus on none of them, on one of them, or on a popup.
InitKeyboard ==
    /\ InitState
    /\ cpc = "poll"
    /\ space \in Stackings
    /\ keyboard_focus \in
          {None} \cup {Some(WindowTarget(space[i])) : i \in DOMAIN space}
                 \cup {Some(PopupTarget(space[i])) : i \in DOMAIN space}

NextKeyboard ==
    \E key \in Keys, state \in {"Pressed", "Released"} : InputKeyboard(key, state)
SpecKeyboard == InitKeyboard /\ [][NextKeyboard]_vars

\* The shortcut keys and the pointer button over any stack of windows.
NextFocus ==
    \/ \E key \in {"Ctrl", "Shift", "Tab"}, state \in {"Pressed", "Released"} :
          InputKeyboard(key, state)
    \/ \E pressed \in BOOLEAN, grabbed \in BOOLEAN, under \in Mapped \cup {NoWindow} :
          InputPointerButton(pressed, grabbed, under)
SpecFocus == InitKeyboard /\ [][NextFocus]_vars

\* The pointer of a running compositor with a window mapped, while the
\* producer sets video formats.
InitPointer ==
    /\ InitState
    /\ cpc = "poll"
    /\ space = <<"w1">>
    /\ keyboard_focus = None

NextPointer ==
    \/ \E info \in PointerFormats : SetVideoInfo("t1", info)
    \/ PollReturn
    \/ DispatchChannel
    \/ DrainEnd
    \/ \E alloc_ok \in BOOLEAN : HandleVideoInfo(alloc_ok)
    \/ EndIteration
    \/ DropLocals
    \/ ThreadExit
    \/ \E w \in Mapped : NewConstraint(w, "locked")
    \/ \E w \in Mapped : RemoveConstraint(w)
    \/ \E dx \in Deltas, dy \in Deltas, under \in Mapped \cup {NoWindow},
          new_under \in Mapped \cup {NoWindow}, in_region \in BOOLEAN,
          new_in_region \in BOOLEAN :
          InputPointerMotion(dx, dy, under, new_under, in_region, new_in_region)
    \/ \E qx \in AbsQuarters, qy \in AbsQuarters, under \in Mapped \cup {NoWindow} :
          InputPointerMotionAbsolute(qx, qy, under)
    \/ InputPointerAxis
SpecPointer == InitPointer /\ [][NextPointer]_vars

\* Two host threads that read the lists, add devices and finish the display,
\* from the start of the compositor thread on.
LazyCall(t) ==
    \/ GetDevices(t)
    \/ GetEnvVars(t)
    \/ \E path \in Paths : AddInputDevice(t, path)
    \/ Drop(t)
    \/ Join(t)

NextLazy ==
    \/ LazyCall("t1")
    \/ LazyCall("t2")
    \/ InitDone
    \/ \E devices_sent \in BOOLEAN : InitPanic(devices_sent)
    \/ PollReturn
    \/ DispatchChannel
    \/ DrainEnd
    \/ HandleInputDevice
    \/ HandleQuit
    \/ EndIteration
    \/ DropLocals
    \/ ThreadExit
SpecLazy == Init /\ [][NextLazy]_vars

\* Compositors of one process started and shut down concurrently.
NextEgl ==
    \E s \in Servers :
        \/ \E node \in DrmNodes : ServerSpawn(s, node)
        \/ EglLock(s)
        \/ EglLookup(s)
        \/ \E create_ok \in BOOLEAN : EglCreate(s, create_ok)
        \/ \E context_ok \in BOOLEAN : EglContext(s, context_ok)
        \/ ServerShutdown(s)
SpecEgl == Init /\ [][NextEgl]_vars

\* The seat of a running compositor after the producer's first format was
\* handled: with two windows mapped, and with one.
SeatFormat == [format |-> "RGBx", width |-> 4, height |-> 4, fps_n |-> 1, fps_d |-> 1]

InitConfigured ==
    /\ hpc = [t \in Threads |-> "idle"]
    /\ hret = [t \in Threads |-> NoRet]
    /\ handle = "live"
    /\ rch = [t \in Threads |-> NoReply]
    /\ cmdq = <<>>
    /\ cpc = "poll"
    /\ ready_chan = FALSE
    /\ ready_timers = {}
    /\ cur = None
    /\ timers = {}
    /\ should_quit = FALSE
    /\ output = Some([size |-> <<SeatFormat.width, SeatFormat.height>>,
                      refresh |-> RefreshOf(SeatFormat)])
    /\ dtr = Some(<<SeatFormat.width, SeatFormat.height>>)
    /\ renderbuffer = Some([size |-> <<SeatFormat.width, SeatFormat.height>>,
                            fourcc |-> FourccOrDefault(SeatFormat.format)])
    /\ video_info = Some(SeatFormat)
    /\ last_render = None
    /\ pointer_location = <<SeatFormat.width, SeatFormat.height>>
    /\ renderer_bound = FALSE
    /\ input_devices = {}
    /\ clock = 0
    /\ nsent = 1
    /\ processed = 1
    /\ last_sent = Some(SeatFormat)
    /\ last_via = "none"
    /\ frame_log = <<>>
    /\ keyboard_focus = None
    /\ surpressed_keys = {}
    /\ constraints = [w \in Windows |-> "none"]
    /\ pointer_focus = NoWindow
    /\ pointer_grab = FALSE
    /\ keys_down = {}
    /\ client_keys = {}
    /\ last_input = NoInput
    /\ devices = Published(NoValue, DeviceList)
    /\ envs = Published(NoValue, EnvList)
    /\ InitEgl

InitSeat == InitConfigured /\ space = <<"w1", "w2">>

NextSeat ==
    \/ \E w \in Mapped : NewConstraint(w, "locked")
    \/ \E w \in Mapped : RemoveConstraint(w)
    \/ \E dx \in {2}, dy \in {-40, 2}, under \in Mapped \cup {NoWindow},
          new_under \in Mapped \cup {NoWindow}, in_region \in BOOLEAN,
          new_in_region \in BOOLEAN :
          InputPointerMotion(dx, dy, under, new_under, in_region, new_in_region)
    \/ \E qx \in {0, 3}, qy \in {0}, under \in Mapped \cup {NoWindow} :
          InputPointerMotionAbsolute(qx, qy, under)
    \/ \E pressed \in BOOLEAN, grabbed \in BOOLEAN, under \in Mapped \cup {NoWindow} :
          InputPointerButton(pressed, grabbed, under)
    \/ InputPointerAxis
SpecSeat == InitSeat /\ [][NextSeat]_vars

InitMotion == InitConfigured /\ space = <<"w1">>

\* Pointer motion over one window that locks the pointer.
NextMotion ==
    \/ \E w \in Mapped : NewConstraint(w, "locked")
    \/ \E w \in Mapped : RemoveConstraint(w)
    \/ \E dx \in Deltas, dy \in Deltas, under \in Mapped \cup {NoWindow},
          new_under \in Mapped \cup {NoWindow}, in_region \in BOOLEAN,
          new_in_region \in BOOLEAN :
          InputPointerMotion(dx, dy, under, new_under, in_region, new_in_region)
    \/ \E qx \in AbsQuarters, qy \in AbsQuarters, under \in Mapped \cup {NoWindow} :
          InputPointerMotionAbsolute(qx, qy, under)
SpecMotion == InitMotion /\ [][NextMotion]_vars

\* ----------------------------------------------------------------- claims
\* The step that handles the Command::Buffer at the head of the channel.
BufferStep ==
    /\ cpc = "drain" /\ cmdq # <<>>
    /\ NextCommand.type = "Buffer"
    /\ processed' = NextCommand.seq

\* The last command sent was Quit and the compositor has handled it.
QuitProcessed == handle = "finished" /\ processed = nsent

\* C1: frame pacing. A RequestFrame handled less than the frame duration D
\* after the last successful render at T0 starts no capture in that step, and
\* whenever the render timestamp changes from T0, the new timestamp and the
\* time of that render are both at least T0 + D.
C1_FramePacing ==
    /\ [][(IsSome(last_render) /\ last_render' # last_render) =>
            /\ Unwrap(last_render') >= Unwrap(last_render) + FrameDuration(Unwrap(video_info))
            /\ clock' >= Unwrap(last_render) + FrameDuration(Unwrap(video_info))]_vars
    /\ [][(/\ BufferStep
           /\ IsSome(last_render)
           /\ ~FrameDurationPanics(Unwrap(video_info))
           /\ clock < Unwrap(last_render) + FrameDuration(Unwrap(video_info)))
          => (last_render' = last_render /\ cpc' # "sending")]_vars

\* C1 witness: a capture deferred by the pacing timer was rendered and its
\* frame has been returned to the producer.
C1_Witness ==
    /\ last_via = "timer"
    /\ hret["t1"].kind = "Buffer"
    /\ hpc["t1"] = "idle"
    /\ cpc = "poll"

\* C2 as stated: after a RequestFrame handled with no video format set, the
\* compositor thread keeps running its event loop.
C2_KeepsRunning ==
    [][(BufferStep /\ video_info = None) => cpc' \in {"drain", "sending"}]_vars

\* C2 amended: a RequestFrame handled with no video format set panics the
\* compositor thread and closes the reply channel, for which frame() returns
\* FlowError::Error; once the thread has left its loop no video format is
\* applied and no frame() returns a buffer.
C2_EarlyFrameFails ==
    /\ [][(BufferStep /\ video_info = None) =>
            (cpc' = "unwinding" /\ rch'[NextCommand.reply].st = "closed")]_vars
    /\ [][\A t \in Threads :
            /\ (hret'[t] # hret[t] /\ rch[t].st = "closed") =>
                  hret'[t] = [kind |-> "Error", from |-> "closed"]
            /\ (hret'[t] # hret[t] /\ ~InLoop) => hret'[t].kind \in {"Error", "Eos"}]_vars
    /\ [][~(InLoop \/ cpc = "starting") => video_info' = video_info]_vars

\* C2 witness: a frame() called after the early request killed the thread
\* has returned Eos (no format was ever applied, one command was handled).
C2_Witness ==
    /\ hret["t1"].kind = "Eos"
    /\ output = None
    /\ processed > 0
    /\ cpc = "terminated"

\* C3: a RequestFrame handled while one of create_frame's assertions fails
\* panics the thread without offering any value on the reply channel, and
\* every success value ever offered or returned carries a configured format.
C3_EarlyFramePanics ==
    /\ [][(BufferStep /\ ~AssertsHold) =>
            (cpc' = "unwinding" /\ cur' = None
             /\ rch'[NextCommand.reply].st # "offered")]_vars
    /\ [](\A t \in Threads :
            /\ (rch[t].st = "offered" /\ rch[t].val.kind = "Ok") => IsSome(rch[t].val.info)
            /\ hret[t].kind = "Buffer" => IsSome(hret[t].info))

\* C3 witness: the producer got Error for its early request while the
\* compositor thread unwinds from the panic.
C3_Witness ==
    /\ hret["t1"] = [kind |-> "Error", from |-> "closed"]
    /\ output = None
    /\ cpc = "unwinding"
    /\ processed > 0

\* C4 as stated: the command channel holds no command while the compositor
\* is busy, and never more than the one being handed over.
C4_NoQueuedCommand ==
    /\ Len(cmdq) <= 1
    /\ cpc \in {"starting", "sending"} => cmdq = <<>>

\* C4 amended: only the reply channel is a rendezvous. The compositor's send
\* of a frame result returns Ok only after the producer's recv has taken the
\* value, which is offered exactly while that send is pending.
C4_ReplyRendezvous ==
    /\ [][(cpc = "sending" /\ cpc' # "sending" /\ should_quit' = should_quit) =>
            Unwrap(cur).sent = "ok"]_vars
    /\ [](\A t \in Threads :
            rch[t].st = "offered" <=>
               (cpc = "sending" /\ Unwrap(cur).reply = t /\ Unwrap(cur).sent = "pending"))

\* C4 witness: a command is queued while the compositor is inside a handler,
\* blocked in or just released from the send of a frame result.
C4_Witness ==
    /\ cpc = "sending"
    /\ cmdq # <<>>

\* Frame requests sent and not yet answered: queued, waiting on a timer, or
\* being answered.
Outstanding ==
    Cardinality({i \in 1..Len(cmdq) : cmdq[i].type = "Buffer"})
        + Cardinality(timers)
        + (IF IsSome(cur) /\ Unwrap(cur).sent = "pending" THEN 1 ELSE 0)

\* C5: frame() returns only when its reply was offered or its reply channel
\* was closed; with one producer thread at most one request is outstanding
\* (none unless the producer is inside frame()), and at most one timer pends.
C5_OneInFlight ==
    /\ [][\A t \in Threads :
            (hpc[t] = "recv" /\ hpc'[t] = "idle") => rch[t].st \in {"offered", "closed"}]_vars
    /\ [](/\ Outstanding <= 1
          /\ Cardinality(timers) <= 1
          /\ hpc["t1"] # "recv" => Outstanding = 0)

\* C5 witness: the producer is blocked in frame() while its request waits on
\* the pacing timer.
C5_Witness ==
    /\ hpc["t1"] = "recv"
    /\ Cardinality(timers) = 1
    /\ cpc = "poll"

\* C6: commands are handled in the order sent, none skipped, and a returned
\* frame was rendered with the last format sent before its request.
C6_Fifo ==
    /\ [][processed' # processed => processed' = processed + 1]_vars
    /\ [](\A t \in Threads :
            hret[t].kind = "Buffer" => hret[t].info = hret[t].latest)

\* C6 witness: a frame was returned for the third command of the run.
C6_Witness ==
    /\ hret["t1"].kind = "Buffer"
    /\ processed = 3
    /\ hpc["t1"] = "idle"

\* C7 as stated: when the loop stops after Quit was handled, no frame request
\* is left waiting on the pacing timer (it was rendered and answered).
C7_InFlightCompletes ==
    (cpc = "returning" /\ QuitProcessed) => timers = {}

\* C7 amended: Quit only sets the flag. The loop stops only in the closure
\* that ends an iteration, with the flag set, every ready source dispatched
\* and no send in progress; when it stops after Quit, every command sent
\* before Quit has been received. A request still waiting on its timer is
\* then not rendered: once the thread has dropped the loop no timer is left
\* and no reply channel is open, so its caller is released with an error.
C7_QuitCooperative ==
    /\ [][(cpc' = "returning" /\ cpc # "returning") =>
            (cpc = "dispatch" /\ should_quit /\ ~ready_chan /\ ready_timers = {}
             /\ cur = None)]_vars
    /\ []((cpc = "returning" /\ QuitProcessed) => cmdq = <<>>)
    /\ [](cpc \in {"exiting", "terminated"} =>
            (timers = {} /\ \A t \in Threads : rch[t].st \notin {"open", "offered"}))

\* C7 witness: Quit was handled and the loop dropped while the producer was
\* blocked in frame() on a request deferred after an earlier render; its
\* reply channel is closed without a value.
C7_Witness ==
    /\ cpc = "exiting"
    /\ QuitProcessed
    /\ IsSome(last_render)
    /\ hpc["t1"] = "recv"
    /\ rch["t1"].st = "closed"

\* C8: when the send of a frame result fails because the receiver is gone,
\* the result reaches nobody and should_quit is set; Quit (the arm shared
\* with the channel's Closed event) sets it too; and with should_quit set the
\* closure that ends the iteration never returns to the poll.
C8_DisconnectFatal ==
    /\ [][(cpc = "sending" /\ cpc' # "sending" /\ Unwrap(cur).sent = "err") =>
            (should_quit' /\ hret' = hret /\ cpc' = Unwrap(cur).ret_to)]_vars
    /\ [][(cpc = "drain" /\ cmdq # <<>> /\ NextCommand.type = "Quit"
           /\ processed' = NextCommand.seq) => should_quit']_vars
    /\ [][(cpc = "dispatch" /\ should_quit /\ cpc' # "dispatch") =>
            cpc' \in {"drain", "sending", "returning", "unwinding"}]_vars
    /\ [][(cpc = "dispatch" /\ should_quit /\ ~ready_chan /\ ready_timers = {}
           /\ cpc' # cpc) => cpc' = "returning"]_vars

\* C8 witness: the loop has stopped although no Quit was sent and the
\* producer, torn down inside frame(), never got a result: the send of its
\* frame result failed.
C8_Witness ==
    /\ cpc = "returning"
    /\ should_quit
    /\ handle = "live"
    /\ hpc["t1"] = "gone"
    /\ hret["t1"].kind = "none"
    /\ IsSome(last_render)

\* C9 as stated: whenever drop / display_finish has returned, the compositor
\* thread has terminated.
C9_JoinedOnReturn ==
    \A t \in Threads : hpc[t] = "done" => cpc = "terminated"

VideoInfoStep ==
    /\ cpc = "drain" /\ cmdq # <<>>
    /\ NextCommand.type = "VideoInfo"
    /\ processed' = NextCommand.seq

\* A step in which create_frame runs on a configured server: a RequestFrame
\* that is not deferred, or the dispatch of a pacing timer.
CaptureStep ==
    /\ AssertsHold
    /\ \/ /\ BufferStep
          /\ \/ last_render = None
             \/ /\ ~FrameDurationPanics(Unwrap(video_info))
                /\ PacingWait(clock) = None
       \/ cpc = "dispatch" /\ timers' # timers

\* C11 as stated: every capture on a configured server, whatever fails in it,
\* ends with a result sent on the request's reply channel; none ends the
\* compositor thread.
C11_SingleFailureChannel ==
    [][CaptureStep => cpc' = "sending"]_vars

\* C12 as stated: no SetVideoFormat ends the compositor thread, and one that
\* is not applied leaves the output mode, the damage tracker, the pointer
\* location, the render buffer and the video format as they were.
C12_AllocFailureNoOp ==
    [][VideoInfoStep =>
         /\ cpc' = "drain"
         /\ video_info' # Some(NextCommand.info) =>
               /\ output' = output
               /\ dtr' = dtr
               /\ pointer_location' = pointer_location
               /\ renderbuffer' = renderbuffer
               /\ video_info' = video_info]_vars

\* The pixel layout a GPU buffer format stores, and whether it is the layout
\* of a video format (RGBx is RGBA with the fourth byte unused).
LayoutOfFourcc(fourcc) == IF fourcc = "Ayuv" THEN "AYUV" ELSE "RGBA"
SameLayout(fourcc, layout) ==
    \/ LayoutOfFourcc(fourcc) = layout
    \/ LayoutOfFourcc(fourcc) = "RGBA" /\ layout = "RGBx"

\* C13 as stated: the render buffer and every exported frame use the layout
\* of the video format that was requested, never a default one.
C13_NoDefaultFallback ==
    /\ (IsSome(renderbuffer) /\ IsSome(video_info)) =>
          SameLayout(Unwrap(renderbuffer).fourcc, Unwrap(video_info).format)
    /\ \A t \in Threads :
          hret[t].kind = "Buffer" =>
             SameLayout(hret[t].fourcc, Unwrap(hret[t].info).format)

\* C14 as stated: when the compositor thread fails in its GPU initialization,
\* the host holds no handle.
C14_StartupFatal ==
    [][(cpc = "starting" /\ cpc' = "unwinding") =>
          handle' \notin {"live", "finished"}]_vars

\* C15 as stated: every frame returned has exactly width x height x
\* bytes-per-pixel bytes of the layout requested.
C15_BufferLength ==
    \A t \in Threads :
       hret[t].kind = "Buffer" =>
          hret[t].len = Unwrap(hret[t].info).width * Unwrap(hret[t].info).height
                          * BytesPerPixel(Unwrap(hret[t].info).format)

\* A step that processes a key event (every key event flips one key).
KeyStep == keys_down' # keys_down

\* C18 as stated: an intercepted cycle-focus shortcut on two or more windows
\* raises the window that was topmost-but-one to the top and keeps the
\* relative order of the others.
C18_RaisesSecond ==
    [][(/\ KeyStep
        /\ last_input'.state = "Pressed"
        /\ last_input'.sym = "Tab"
        /\ last_input'.result = "Intercept"
        /\ Len(space) >= 2)
       => space' = RaiseElement(space, space[Len(space) - 1])]_vars

\* C19: an intercepted key press leaves its symbol in the suppressed set and
\* no press removes a symbol; a release whose symbol is in the set is
\* intercepted and removes exactly that symbol; a release whose symbol is not
\* in the set is forwarded and leaves the set unchanged.
C19_SuppressedSymmetry ==
    [][KeyStep =>
         /\ (last_input'.state = "Pressed" /\ last_input'.result = "Intercept") =>
               last_input'.sym \in surpressed_keys'
         /\ last_input'.state = "Pressed" => surpressed_keys \subseteq surpressed_keys'
         /\ (last_input'.state = "Released" /\ last_input'.sym \in surpressed_keys) =>
               /\ last_input'.result = "Intercept"
               /\ surpressed_keys' = surpressed_keys \ {last_input'.sym}
         /\ (last_input'.state = "Released" /\ last_input'.sym \notin surpressed_keys) =>
               /\ last_input'.result = "Forward"
               /\ surpressed_keys' = surpressed_keys]_vars

\* C19 witness: the release of Q, carrying the symbol of its intercepted
\* press, was intercepted and emptied the suppressed set; the client saw
\* neither the press nor the release.
C19_Witness ==
    /\ last_input = [kind |-> "key", key |-> "Q", state |-> "Released", sym |-> "Q",
                     result |-> "Intercept", close |-> None]
    /\ surpressed_keys = {}
    /\ "Q" \notin client_keys

\* C20 as stated: a key release is forwarded only for a key whose press was
\* forwarded.
C20_NoLoneRelease ==
    [][(/\ KeyStep
        /\ last_input'.state = "Released"
        /\ last_input'.result = "Forward")
       => last_input'.key \in client_keys]_vars

\* The pointer location lies within the output's bounds minus the 2-pixel
\* margin: x in [0, width - 2] and y in [0, height - 2].
WithinMargin ==
    /\ pointer_location[1] \in 0..(2 * (Unwrap(output).size[1] - 2))
    /\ pointer_location[2] \in 0..(2 * (Unwrap(output).size[2] - 2))

\* C16 as stated: with an output mode configured, the pointer location after
\* a relative motion (the last input event processed) is within the margin.
C16_RelativeMotionClamped ==
    (IsSome(output) /\ last_input.kind = "motion") => WithinMargin

\* C17 as stated: in every state with an output mode configured, the pointer
\* location is within the margin.
C17_PointerWithinMargin ==
    IsSome(output) => WithinMargin

\* The surfaces whose pointer constraint is active.
ActiveConstraints == {w \in Windows : constraints[w] = "locked"}

\* C21 as stated: in every reachable state at most one pointer constraint is
\* active for the seat.
C21_ConstraintExclusive ==
    Cardinality(ActiveConstraints) <= 1

\* C22 as stated: each list is received at most once, what a cell caches is
\* the value the compositor thread published, and a receive made is the one
\* that filled the cell: get() never comes back without the value.
C22_ResolvedOnce ==
    \A ch \in {devices, envs} :
        /\ ch.recvs <= 1
        /\ IsSome(ch.cell) => (ch.cell = ch.val /\ ch.recvs = 1)
        /\ ch.recvs = 1 => IsSome(ch.cell)

\* The displays alive for a render node, and the servers holding a display.
LiveDisplays(node) ==
    {d \in DOMAIN egl_arcs : egl_arcs[d].node = node /\ egl_arcs[d].strong > 0}
Holders(d) == {s \in Servers : servers[s].display = d}

\* C23: at any time at most one display is alive per render node, and a
\* display is alive exactly while a server holds it; a server that gets a
\* display gets the one alive for its node if there is one, and a new one,
\* registered for the node, only otherwise.
C23_OneDisplayPerKey ==
    /\ [](\A node \in DrmNodes : Cardinality(LiveDisplays(node)) <= 1)
    /\ [](\A d \in DOMAIN egl_arcs : egl_arcs[d].strong = Cardinality(Holders(d)))
    /\ [][\A s \in Servers :
            (servers[s].display = 0 /\ servers'[s].display # 0) =>
               LET node == servers[s].node
                   d == servers'[s].display
               IN /\ servers'[s].node = node
                  /\ IF LiveDisplays(node) # {}
                        THEN d \in LiveDisplays(node) /\ Len(egl_arcs') = Len(egl_arcs)
                        ELSE /\ d \notin DOMAIN egl_arcs
                             /\ egl_displays'[node] = d
                             /\ egl_arcs'[d].node = node]_vars

\* Two servers share the display of their node while another display, of a
\* node whose server is gone, has been freed.
C23_Witness ==
    /\ \E d \in DOMAIN egl_arcs : Cardinality(Holders(d)) = 2
    /\ \E d \in DOMAIN egl_arcs : egl_arcs[d].strong = 0
    /\ \E s \in Servers : servers[s].pc = "running"

\* C24: a press is intercepted only with ctrl and shift held and neither alt
\* nor logo, and an intercepted press does not reach the client. A press
\* under any other modifiers, a Tab press with no window mapped, and a Q press
\* with the focus absent or not on a window are forwarded, ask for no close,
\* and leave the stack, the keyboard focus and the suppressed set as they were.
C24_ShortcutFilter ==
    [][(KeyStep /\ last_input'.state = "Pressed") =>
         LET combo == /\ {"Ctrl", "Shift"} \subseteq keys_down'
                      /\ keys_down' \cap {"Alt", "Logo"} = {}
             key == last_input'.key
             no_shortcut ==
                \/ ~combo
                \/ key = "Tab" /\ space = <<>>
                \/ key = "Q" /\ (keyboard_focus = None
                                    \/ Unwrap(keyboard_focus).kind # "window")
         IN /\ last_input'.result = "Intercept" =>
                  (combo /\ client_keys' = client_keys)
            /\ no_shortcut =>
                  /\ last_input'.result = "Forward"
                  /\ key \in client_keys'
                  /\ last_input'.close = None
                  /\ UNCHANGED <<space, keyboard_focus, surpressed_keys>>]_vars

\* A close-focused press with the focus on a popup was forwarded.
C24_Witness ==
    /\ last_input.kind = "key" /\ last_input.state = "Pressed" /\ last_input.key = "Q"
    /\ last_input.result = "Forward"
    /\ keys_down = {"Ctrl", "Shift", "Q"}
    /\ IsSome(keyboard_focus) /\ Unwrap(keyboard_focus).kind = "popup"
    /\ "Q" \in client_keys

\* The step of an intercepted cycle-focus press, and the step of a button
\* press on a window while neither the pointer nor the keyboard is grabbed.
CycleFocusStep ==
    /\ KeyStep
    /\ last_input'.state = "Pressed" /\ last_input'.key = "Tab"
    /\ last_input'.result = "Intercept"
UngrabbedPressStep ==
    /\ ~pointer_grab /\ pointer_grab'
    /\ last_input'.kind = "button" /\ last_input'.under # NoWindow

\* C25: right after an intercepted cycle-focus shortcut, and right after a
\* button press on a window with no grab active, the keyboard focus is the
\* window on top of the stack.
C25_FocusFollowsTop ==
    [][(CycleFocusStep \/ UngrabbedPressStep) =>
          /\ space' # <<>>
          /\ keyboard_focus' = Some(WindowTarget(space'[Len(space')]))]_vars

\* A press on w1 in a stack of three: w1 is on top and focused.
C25_Witness ==
    /\ last_input.kind = "button" /\ last_input.pressed /\ ~last_input.grabbed
    /\ last_input.under = "w1"
    /\ Len(space) = 3 /\ space[3] = "w1"
    /\ keyboard_focus = Some(WindowTarget("w1"))
    /\ "Tab" \in surpressed_keys

\* C26: a relative motion by (dx, dy), with the window under the old location
\* holding an active lock whose region contains the pointer, sends a relative
\* motion and a frame and nothing else, activates no constraint and leaves
\* the location; any other relative motion moves the location by the delta,
\* clamped, and sends a relative motion, a motion and a frame.
C26_LockedMotion ==
    [][\A dx \in Deltas, dy \in Deltas, under \in Mapped \cup {NoWindow},
          new_under \in Mapped \cup {NoWindow}, in_region \in BOOLEAN,
          new_in_region \in BOOLEAN :
          InputPointerMotion(dx, dy, under, new_under, in_region, new_in_region) =>
             IF under # NoWindow /\ constraints[under] = "locked" /\ in_region
                THEN /\ last_input'.calls = <<"relative_motion", "frame">>
                     /\ ActiveConstraints' = ActiveConstraints
                     /\ pointer_location' = pointer_location
                ELSE /\ pointer_location' =
                           ClampCoords(<<pointer_location[1] + dx,
                                         pointer_location[2] + dy>>)
                     /\ last_input'.calls = <<"relative_motion", "motion", "frame">>]_vars

\* A locked motion left the pointer where it was, away from the centre the
\* format change had put it at.
C26_Witness ==
    /\ last_input.kind = "motion" /\ last_input.locked
    /\ last_input.calls = <<"relative_motion", "frame">>
    /\ constraints["w1"] = "locked"
    /\ pointer_location # Unwrap(output).size

\* The events sent to the seat's pointer while the last input event was
\* handled, in order.
PointerEvents == SelectSeq(last_input.calls, LAMBDA c : c # "set_focus")

\* C27 as stated: the events sent to the pointer for a button event end with
\* a frame marker that follows the button event.
C27_ButtonEndsWithFrame ==
    last_input.kind = "button" =>
        /\ Len(PointerEvents) >= 2
        /\ PointerEvents[Len(PointerEvents)] = "frame"
        /\ PointerEvents[Len(PointerEvents) - 1] = "button"

\* C28 as stated: an absolute motion received while an output is configured
\* sends a motion and a relative motion, and a frame marker last.
C28_AbsoluteEmitsRelative ==
    (last_input.kind = "absolute" /\ last_input.configured) =>
        /\ \E i \in DOMAIN PointerEvents : PointerEvents[i] = "motion"
        /\ \E i \in DOMAIN PointerEvents : PointerEvents[i] = "relative_motion"
        /\ PointerEvents[Len(PointerEvents)] = "frame"

\* C28, amended: an absolute motion received while an output is configured
\* sends a motion followed by a frame marker, and no relative motion.
C28_AbsoluteEmitsMotion ==
    (last_input.kind = "absolute" /\ last_input.configured) =>
        PointerEvents = <<"motion", "frame">>

\* An absolute motion put the pointer on the right edge of the output.
C28_Witness ==
    /\ last_input.kind = "absolute" /\ last_input.configured
    /\ IsSome(output)
    /\ pointer_location[1] = AbsoluteTransformed(3, Unwrap(output).size[1])
    /\ pointer_focus = "w1"

\* C29: a step that changes the keyboard focus or the stack through the
\* pointer is a button press with no grab active, and the change comes before
\* the button is sent; a press under a grab, a release, a motion and an axis
\* event change neither.
C29_FocusOnPressOnly ==
    /\ [][(keyboard_focus' # keyboard_focus \/ space' # space) =>
             /\ last_input'.kind = "button"
             /\ last_input'.pressed /\ ~last_input'.grabbed /\ ~pointer_grab
             /\ last_input'.calls = <<"set_focus", "button">>]_vars
    /\ [][(/\ last_input'.kind = "button"
           /\ ~last_input'.pressed \/ last_input'.grabbed) =>
             UNCHANGED <<keyboard_focus, space>>]_vars
    /\ [][last_input'.kind \in {"motion", "absolute", "axis"} =>
             UNCHANGED <<keyboard_focus, space>>]_vars

\* A press on w1 while a client held a grab: w2 kept the focus and the top.
C29_Witness ==
    /\ last_input.kind = "button" /\ last_input.pressed /\ last_input.grabbed
    /\ last_input.under = "w1"
    /\ keyboard_focus = Some(WindowTarget("w2"))
    /\ space = <<"w1", "w2">>

\* The orders in which a capture can have gone so far: a successful one sets
\* the timestamp, waits for the fence, sends, has the buffer taken by the
\* caller (or finds the caller gone), and then sends the feedback; a failed
\* one only sends its error.
CaptureOrders ==
    { <<>>,
      <<"timestamp", "fence_wait", "send">>,
      <<"timestamp", "fence_wait", "send", "handed">>,
      <<"timestamp", "fence_wait", "send", "handed", "feedback">>,
      <<"timestamp", "fence_wait", "send", "feedback">>,
      <<"send">>,
      <<"send", "handed">> }

\* C30: a successful capture records the render timestamp and waits for the
\* fence before the buffer goes to the caller, and sends the feedback to the
\* windows only once the send has returned; the render timestamp changes
\* only when a capture succeeds.
C30_CaptureOrder ==
    /\ [](frame_log \in CaptureOrders)
    /\ [][(cpc = "sending" /\ cpc' \in {"drain", "dispatch"} /\ Unwrap(cur).ok) =>
             /\ Unwrap(cur).sent # "pending"
             /\ frame_log' = Append(frame_log, "feedback")]_vars
    /\ [][last_render' # last_render =>
             /\ cpc' = "sending" /\ Unwrap(cur').ok
             /\ frame_log' = <<"timestamp", "fence_wait", "send">>]_vars

\* A capture went through all its steps, and the caller holds the buffer.
C30_Witness ==
    /\ frame_log = <<"timestamp", "fence_wait", "send", "handed", "feedback">>
    /\ hret["t1"].kind = "Buffer"
    /\ last_render # None

\* C31: every handled SetVideoFormat leaves the output, the damage tracker,
\* the render buffer and the active video format set and describing that
\* format; every RequestFrame handled after a SetVideoFormat finds the four
\* assertions of create_frame true; a last-render timestamp implies a video
\* format.
C31_FormatStateCoherent ==
    /\ [][VideoInfoStep =>
            LET info == NextCommand.info
                size == <<info.width, info.height>>
            IN /\ output' = Some([size |-> size, refresh |-> RefreshOf(info)])
               /\ dtr' = Some(size)
               /\ renderbuffer' = Some([size |-> size,
                                        fourcc |-> FourccOrDefault(info.format)])
               /\ video_info' = Some(info)]_vars
    /\ [][BufferStep /\ IsSome(output) => AssertsHold]_vars
    /\ [](IsSome(last_render) => IsSome(video_info))

\* The compositor thread is inside buffer_sender.send, waiting for the
\* receiver of the reply channel.
SendPending == cpc = "sending" /\ IsSome(cur) /\ Unwrap(cur).sent = "pending"

\* C32 as stated: the compositor thread is never in a handler waiting for the
\* producer; outside the poll it can always take its next step by itself.
C32_NeverWaitsOnProducer ==
    cpc \in {"drain", "dispatch", "sending"} => ENABLED Compositor

\* C32 amended: the delivery of a frame result is the one other blocking
\* point. While that send is pending the compositor thread can take no step
\* and the producer is inside frame()'s recv; the thread leaves the send only
\* once the result is no longer waiting in the channel; in every other
\* position of a handler the thread can take its next step by itself.
C32_BlocksOnlyInReplySend ==
    /\ [](SendPending =>
            /\ ~ENABLED Compositor
            /\ hpc[Unwrap(cur).reply] = "recv"
            /\ ENABLED FrameRecv(Unwrap(cur).reply))
    /\ [][cpc = "sending" /\ cpc' # "sending" =>
            rch[Unwrap(cur).reply].st # "offered"]_vars
    /\ []((cpc \in {"drain", "dispatch", "sending"} /\ ~SendPending) =>
            ENABLED Compositor)

\* C32 witness: the compositor thread is blocked in the send of a rendered
\* frame, reached from the dispatch of a pacing timer.
C32_Witness ==
    /\ SendPending
    /\ Unwrap(cur).ok
    /\ Unwrap(cur).ret_to = "dispatch"

\* The compositor thread is ending or has ended: init is unwinding or
\* returning, or the thread's closure has returned.
ThreadEnding == cpc \in {"unwinding", "returning", "exiting", "terminated"}

\* C33: a frame() whose request is unanswered when the compositor thread ends
\* returns, and returns an error; once the thread has terminated no call
\* enters a blocking receive, every receive still open is ready to return,
\* and every command send fails at once.
C33_FrameReturnsAfterThreadEnd ==
    /\ (hpc["t1"] = "recv" /\ ThreadEnding) ~> (hpc["t1"] # "recv")
    /\ [][(ThreadEnding /\ hpc["t1"] = "recv" /\ hpc'["t1"] = "idle") =>
            hret'["t1"].kind \in {"Error", "Eos"}]_vars
    /\ [](cpc = "terminated" =>
            /\ ~RxAlive
            /\ \A t \in Threads : hpc[t] = "recv" => RecvReady(rch[t]))
    /\ [][cpc = "terminated" =>
            \A t \in Threads : hpc'[t] = "recv" => hpc[t] = "recv"]_vars

\* C33 witness: the compositor thread is ending while frame() waits for a
\* request that was deferred to the pacing timer.
C33_Witness ==
    /\ ThreadEnding
    /\ hpc["t1"] = "recv"
    /\ timers # {}

\* C34: whenever create_frame returns, with a frame or with an error, the
\* render buffer is not bound, and every capture starts from an unbound
\* renderer.
C34_BindUnbindPaired ==
    /\ [][(CaptureStep /\ cpc' = "sending") => ~renderer_bound']_vars
    /\ [][CaptureStep => ~renderer_bound]_vars

\* C35: for every accepted frame rate the refresh SetVideoFormat computes is
\* non-negative, and the pacing computation of a RequestFrame that follows a
\* rendered frame does not abort and yields a delay of at most one frame
\* duration.
C35_FrameRateArithmetic ==
    /\ [][VideoInfoStep => Unwrap(output').refresh >= 0]_vars
    /\ [][(BufferStep /\ IsSome(last_render)) =>
            /\ ~FrameDurationPanics(Unwrap(video_info))
            /\ \A tm \in timers' \ timers :
                  (tm.deadline - clock) \in 0..FrameDuration(Unwrap(video_info))]_vars

\* C36: the release of a key whose press was forwarded to the client is
\* forwarded too, and once every key is released the suppressed set is empty.
C36_PressReleasePaired ==
    /\ [][(/\ KeyStep
           /\ last_input'.state = "Released"
           /\ last_input'.key \in client_keys)
          => last_input'.result = "Forward"]_vars
    /\ [](keys_down = {} => surpressed_keys = {})

\* C37: a failed GPU initialisation of one server leaves the shared display
\* registry usable: the registry's mutex is never poisoned, and a server that
\* starts afterwards gets the mutex instead of dying at the lock.
C37_RegistryUsableAfterFailure ==
    /\ [](egl_lock # "poisoned")
    /\ [][\A s \in Servers :
            servers[s].pc = "start" => servers'[s].pc \in {"start", "locked"}]_vars

====
